---- MODULE Spec2Model ----
(***************************************************************************)
(* Indoor positioning: the Kalman fusion filter (algorithms/filters.py),   *)
(* the fusion entry point (algorithms/fusion.py), the equirectangular      *)
(* coordinate transform (algorithms/fingerprint.py) and accelerometer      *)
(* step detection (algorithms/PDR.py).                                     *)
(*                                                                         *)
(* Real numbers are exact rationals <<n, d>> in lowest terms with d > 0:   *)
(* the arithmetic is the code's arithmetic without floating-point rounding.*)
(***************************************************************************)
EXTENDS Integers, Sequences, FiniteSets, TLC

\* ------------------------------------------------------------------ bounds

\* Filter/fusion operations per behaviour.
MaxOps == 4

\* ------------------------------------------------------------ rationals

Abs(n) == IF n < 0 THEN -n ELSE n

RECURSIVE GCD(_, _)
GCD(a, b) == IF b = 0 THEN a ELSE GCD(b, a % b)

\* The rational n/d (d # 0) in lowest terms with a positive denominator.
Rat(n, d) ==
    LET g == GCD(Abs(n), Abs(d))
        s == IF d < 0 THEN -1 ELSE 1
    IN  << (s * n) \div g, (s * d) \div g >>

RI(n) == << n, 1 >>
\* Sums and products reduce by common factors first, so intermediate
\* integers stay small.
RAdd(a, b) ==
    LET g == GCD(a[2], b[2])
    IN  Rat(a[1] * (b[2] \div g) + b[1] * (a[2] \div g), (a[2] \div g) * b[2])
RNeg(a) == << -a[1], a[2] >>
RSub(a, b) == RAdd(a, RNeg(b))
RMul(a, b) ==
    LET g1 == GCD(Abs(a[1]), b[2])
        g2 == GCD(Abs(b[1]), a[2])
    IN  IF a[1] = 0 \/ b[1] = 0 THEN << 0, 1 >>
        ELSE Rat((a[1] \div g1) * (b[1] \div g2), (a[2] \div g2) * (b[2] \div g1))
RDiv(a, b) == RMul(a, Rat(b[2], b[1]))
RLt(a, b) == a[1] * b[2] < b[1] * a[2]
RLe(a, b) == a[1] * b[2] <= b[1] * a[2]
RZero == RI(0)
ROne == RI(1)

\* ------------------------------------------------------- 3x3 matrices

Idx == 1..3

\* The 3x3 matrix with entries F(i, j), and the 3-vector with entries F(i).
Mat(F(_, _)) ==
    << << F(1, 1), F(1, 2), F(1, 3) >>,
       << F(2, 1), F(2, 2), F(2, 3) >>,
       << F(3, 1), F(3, 2), F(3, 3) >> >>
Vec(F(_)) == << F(1), F(2), F(3) >>

\* np.eye(3) * c
EyeTimes(c) == LET F(i, j) == IF i = j THEN c ELSE RZero IN Mat(F)
Eye == EyeTimes(ROne)

MAdd(A, B) == LET F(i, j) == RAdd(A[i][j], B[i][j]) IN Mat(F)
MSub(A, B) == LET F(i, j) == RSub(A[i][j], B[i][j]) IN Mat(F)
MT(A) == LET F(i, j) == A[j][i] IN Mat(F)

\* ndarray.dot for two 3x3 matrices
MDot(A, B) ==
    LET F(i, j) == RAdd(RAdd(RMul(A[i][1], B[1][j]), RMul(A[i][2], B[2][j])),
                        RMul(A[i][3], B[3][j]))
    IN  Mat(F)

\* ndarray.dot for a 3x3 matrix and a 3x1 column
MVec(A, v) ==
    LET F(i) == RAdd(RAdd(RMul(A[i][1], v[1]), RMul(A[i][2], v[2])),
                     RMul(A[i][3], v[3]))
    IN  Vec(F)

VAdd(u, v) == LET F(i) == RAdd(u[i], v[i]) IN Vec(F)
VSub(u, v) == LET F(i) == RSub(u[i], v[i]) IN Vec(F)

Det2(a, b, c, d) == RSub(RMul(a, d), RMul(b, c))

Det3(A) ==
    RAdd(RSub(RMul(A[1][1], Det2(A[2][2], A[2][3], A[3][2], A[3][3])),
              RMul(A[1][2], Det2(A[2][1], A[2][3], A[3][1], A[3][3]))),
         RMul(A[1][3], Det2(A[2][1], A[2][2], A[3][1], A[3][2])))

Nxt(i) == (i % 3) + 1

\* Cofactor (i, j) of a 3x3 matrix, by cyclic indexing.
Cof(A, i, j) ==
    Det2(A[Nxt(i)][Nxt(j)], A[Nxt(i)][Nxt(Nxt(j))],
         A[Nxt(Nxt(i))][Nxt(j)], A[Nxt(Nxt(i))][Nxt(Nxt(j))])

Singular(A) == Det3(A) = RZero

\* np.linalg.inv of a non-singular matrix: adjugate over determinant.
MInv(A) ==
    LET det == Det3(A)
        F(i, j) == RDiv(Cof(A, j, i), det)
    IN  Mat(F)

\* ------------------------------------------------ algorithms/filters.py

\* Python's None; as an optional tuple it is the empty tuple, equally falsy.
None == << >>

\* KalmanFilter.__init__ with the default Q and R (every construction in
\* the repository passes none): x = 0, P = I, Q = 0.1 I, R = 2 I, H = I.
KalmanFilter ==
    [x |-> << RZero, RZero, RZero >>,
     P |-> EyeTimes(ROne),
     Q |-> EyeTimes(Rat(1, 10)),
     R |-> EyeTimes(RI(2)),
     H |-> Eye]

\* reset_state that overwrites the state and keeps the old covariance.
reset_state_keeps_P(f, position) == [f EXCEPT !.x = position]

\* KalmanFilter.reset_state(position): x <- position, P <- I.
reset_state(f, position) ==
    [f EXCEPT !.x = position, !.P = EyeTimes(ROne)]

\* predict that overwrites the state with the delta instead of adding it.
predict_overwrites(f, pdr_delta) ==
    [f EXCEPT !.x = pdr_delta, !.P = MAdd(f.P, f.Q)]

\* KalmanFilter.predict(pdr_delta): x <- x + (dx, dy, dfloor), P <- P + Q.
predict(f, pdr_delta) ==
    [f EXCEPT !.x = VAdd(f.x, pdr_delta), !.P = MAdd(f.P, f.Q)]

\* Innovation covariance S = H P H^T + R.
InnovationCov(f) == MAdd(MDot(MDot(f.H, f.P), MT(f.H)), f.R)

\* A gain computed with S in place of its inverse.
KalmanGain_no_inverse(f) == MDot(MDot(f.P, MT(f.H)), InnovationCov(f))

\* Kalman gain K = P H^T S^-1.
KalmanGain(f) == MDot(MDot(f.P, MT(f.H)), MInv(InnovationCov(f)))

\* KalmanFilter(R=R): the constructor given a measurement noise covariance.
KalmanFilterR(R) == [KalmanFilter EXCEPT !.R = R]

\* An inversion that never fails (the error swallowed, or a pseudo-inverse).
update_raises_never(f) == FALSE

\* np.linalg.inv raises LinAlgError on a singular S, before any assignment.
update_raises(f) == Singular(InnovationCov(f))

\* KalmanFilter.update(measurement) when S is invertible:
\* x <- x + K (z - H x), P <- (I - K H) P.
update(f, measurement) ==
    LET y == VSub(measurement, MVec(f.H, f.x))
        K == KalmanGain(f)
    IN  [f EXCEPT !.x = VAdd(f.x, MVec(K, y)),
                  !.P = MDot(MSub(Eye, MDot(K, f.H)), f.P)]

\* KalmanFilter.get_state(): the state as a tuple (x, y, floor).
get_state(f) == << f.x[1], f.x[2], f.x[3] >>

\* -------------------------------------------- algorithms/fingerprint.py

\* Earth radius in metres (R in ll_to_local).
EarthRadius == 6371000

\* math.cos(math.radians(lat0)) for the origin latitudes of the model,
\* whose cosines are rational.
cos_radians(lat0) ==
    CASE lat0 = RI(0) -> ROne
      [] lat0 = RI(60) -> Rat(1, 2)

\* ll_to_local without the cos(lat0) factor on x.
ll_to_local_no_cos(o, lon, lat) ==
    << RMul(RSub(lon, o[1]), RI(EarthRadius)),
       RMul(RSub(lat, o[2]), RI(EarthRadius)) >>

\* ll_to_local(lon, lat) under origin o = <<ORIGIN_LON, ORIGIN_LAT>>:
\* x = (lon - lon0) * cos(lat0) * R, y = (lat - lat0) * R.
ll_to_local(o, lon, lat) ==
    << RMul(RMul(RSub(lon, o[1]), cos_radians(o[2])), RI(EarthRadius)),
       RMul(RSub(lat, o[2]), RI(EarthRadius)) >>

\* local_to_ll(x, y): the inverse, dividing out the same factors.
local_to_ll(o, x, y) ==
    << RAdd(RDiv(x, RMul(cos_radians(o[2]), RI(EarthRadius))), o[1]),
       RAdd(RDiv(y, RI(EarthRadius)), o[2]) >>

\* ----------------------------------------------- services/geolocate.py

\* cfg.DEFAULT_FLOOR
DEFAULT_FLOOR == 2

\* int(v) of a real: truncation toward zero.
ToInt(r) == IF r[1] >= 0 THEN r[1] \div r[2] ELSE -((-r[1]) \div r[2])

\* normalize_position_to_3tuple(pos): None for None or fewer than two
\* coordinates; otherwise (x, y, int(floor)) with DEFAULT_FLOOR when the
\* position carries no floor.
normalize_position_to_3tuple(pos) ==
    IF pos = None THEN None
    ELSE IF Len(pos) < 2 THEN None
    ELSE << pos[1], pos[2],
            IF Len(pos) >= 3 THEN RI(ToInt(pos[3])) ELSE RI(DEFAULT_FLOOR) >>

\* --------------------------------------------------- algorithms/fusion.py

\* to_float_tuple(val): (0.0, 0.0, 0.0) for None, else the floats of val.
to_float_tuple(val) ==
    IF val = None THEN << RZero, RZero, RZero >> ELSE val

\* Python truthiness of an optional tuple argument.
Truthy(v) == v # None

\* The filter fuse() works on: the global _kf, constructed when None.
fuse_filter(k) == IF k = None THEN KalmanFilter ELSE k

\* fuse() with the branches in the other order: the PDR delta wins.
fuse_kf_pdr_first(k, o, pdr_delta, qr_anchor) ==
    LET f == fuse_filter(k)
    IN  IF Truthy(pdr_delta)
        THEN LET dxy == IF Len(pdr_delta) >= 2
                        THEN << pdr_delta[1], pdr_delta[2] >>
                        ELSE << RZero, RZero >>
             IN  predict(f, << dxy[1], dxy[2], RZero >>)
        ELSE IF Truthy(qr_anchor)
        THEN LET pos_gps == to_float_tuple(normalize_position_to_3tuple(qr_anchor))
                 xy == ll_to_local(o, pos_gps[1], pos_gps[2])
             IN  reset_state(f, << xy[1], xy[2], pos_gps[3] >>)
        ELSE f

\* fuse() handing the whole 3-tuple delta, floor included, to predict.
fuse_kf_floor_delta(k, o, pdr_delta, qr_anchor) ==
    LET f == fuse_filter(k)
    IN  IF Truthy(qr_anchor)
        THEN LET pos_gps == to_float_tuple(normalize_position_to_3tuple(qr_anchor))
                 xy == ll_to_local(o, pos_gps[1], pos_gps[2])
             IN  reset_state(f, << xy[1], xy[2], pos_gps[3] >>)
        ELSE IF Truthy(pdr_delta)
        THEN predict(f, IF Len(pdr_delta) >= 3 THEN pdr_delta
                        ELSE << pdr_delta[1], pdr_delta[2], RZero >>)
        ELSE f

\* The filter after fuse(pdr_delta, qr_anchor): the marker branch resets,
\* else the PDR branch predicts with (dx, dy, 0.0), else nothing changes.
fuse_kf(k, o, pdr_delta, qr_anchor) ==
    LET f == fuse_filter(k)
    IN  IF Truthy(qr_anchor)
        THEN LET pos_gps == to_float_tuple(normalize_position_to_3tuple(qr_anchor))
                 xy == ll_to_local(o, pos_gps[1], pos_gps[2])
             IN  reset_state(f, << xy[1], xy[2], pos_gps[3] >>)
        ELSE IF Truthy(pdr_delta)
        THEN LET dxy == IF Len(pdr_delta) >= 2
                        THEN << pdr_delta[1], pdr_delta[2] >>
                        ELSE << RZero, RZero >>
             IN  predict(f, << dxy[1], dxy[2], RZero >>)
        ELSE f

\* Room identifiers 'F-NN', as room.split('-') sees them: << F, NN >>.
RoomIds == { << 1, 5 >>, << 2, 1 >>, << 3, 12 >> }

\* get_floor(room): int(room.split('-')[0]), and 0 when that raises (no room).
get_floor(room) == IF room = None THEN 0 ELSE room[1]

\* fuse(pdr_delta, qr_anchor, room=room), with the floor of the marker branch
\* as the code computes it: pos_gps[2] unless it is None, else get_floor(room).
fuse_room(k, o, pdr_delta, qr_anchor, room) ==
    LET f == fuse_filter(k)
    IN  IF Truthy(qr_anchor)
        THEN LET pos_gps == to_float_tuple(normalize_position_to_3tuple(qr_anchor))
                 xy == ll_to_local(o, pos_gps[1], pos_gps[2])
                 z == IF pos_gps[3] # None THEN pos_gps[3]
                      ELSE RI(get_floor(room))
             IN  reset_state(f, << xy[1], xy[2], z >>)
        ELSE fuse_kf(k, o, pdr_delta, None)

\* The value fuse() returns: the state converted back to (lon, lat, floor).
fuse_result(f, o) ==
    LET state == to_float_tuple(get_state(f))
        ll == local_to_ll(o, state[1], state[2])
    IN  << ll[1], ll[2], state[3] >>

\* ------------------------------------------------------------- inputs

\* Coordinate origins (lon0, lat0) in degrees.
Origins == { << RI(0), RI(0) >>, << RI(2), RI(60) >> }

\* Marker offsets from the origin in degrees, (dlon, dlat) or
\* (dlon, dlat, floor): markers lie within a few kilometres of the origin.
AnchorOffsets ==
    { << Rat(1, 1000), Rat(2, 1000) >>,
      << Rat(3, 1000), Rat(-1, 1000), RI(3) >> }

\* The marker anchor (lon, lat[, floor]) at offset off from origin o.
AnchorAt(o, off) ==
    IF Len(off) = 2
    THEN << RAdd(o[1], off[1]), RAdd(o[2], off[2]) >>
    ELSE << RAdd(o[1], off[1]), RAdd(o[2], off[2]), off[3] >>

\* The anchors fuse() may be given under origin o.
QrAnchors(o) == { AnchorAt(o, off) : off \in AnchorOffsets }

\* PDR deltas as get_latest_positions hands them to fuse(): (dx, dy, floor)
\* from normalize_position_to_3tuple, or a bare (dx, dy).
PdrDeltas ==
    { << RI(1), Rat(1, 2), RI(DEFAULT_FLOOR) >>, << RI(-2), RI(3) >> }

\* Arguments of direct filter calls.
ResetPositions ==
    { << RI(50), RI(20), RI(3) >>, << RI(5), RI(3), RI(2) >>,
      << RZero, RZero, RZero >> }
PredictDeltas ==
    { << RI(1), Rat(1, 2), RZero >>, << RI(-2), RI(3), RZero >>,
      << RZero, RZero, RI(1) >> }
Measurements == { << RI(4), RI(-4), RI(2) >> }

\* -------------------------------------------------------------- state

VARIABLES
    kf,        \* fusion._kf: None or the filter object
    ORIGIN,    \* <<ORIGIN_LON, ORIGIN_LAT>> of algorithms/fingerprint.py
    ret,       \* value returned by the last call (None when it returns none)
    raised,    \* whether the last call raised
    last,      \* the last call: its name, arguments and the filter before it
    run,       \* the predicts made since the last reset_state
    nops,      \* calls made so far
    frame,     \* the origin in force when the filter's state was last set
    batch,     \* the accelerometer batch given to step detection
    pc,        \* where step_detection_accelerometer stands
    window,    \* samples in 0.4 seconds
    Acc_filt_binary,   \* per-sample classification: 1 rising, -1 falling, 0
    StanceBegins_idx,  \* indices of the step events, in detection order
    StancePhase,       \* the stance mask
    positions,         \* the PDR trajectory
    delta,             \* the value pdr_delta returns
    stride_lengths,    \* the stride of each step, in decimetres
    thetas,            \* the heading of each step, in quarter turns
    imu,       \* the batch lengths and gyroscope rates given to the heading stage
    rot_gs,    \* per-sample orientation; None where still np.zeros
    oi,        \* index of the propagation loop
    opc,       \* where the orientation propagation stands
    gyro_idx,  \* the gyroscope-domain index of the step event read, None before
    qr_reset_pending,  \* web/app.py: a marker scan awaits the next poll
    qr_file,   \* the events of QR_EVENTS_FILE, empty when there is no file
    since,     \* the last scan_qr call, the polls and marker resets made after it,
               \* and the position last confirmed
    events,    \* the event list given to get_last_qr_position
    result,    \* what get_last_qr_position did: raised, or the value returned
    qpc,       \* where the call of get_last_qr_position stands
    m_acc,   \* the filtered acceleration magnitude given to the stride estimator
    sample_step_event,   \* the step event whose stride is estimated
    stride_length4,  \* the fourth power of the stride, in 1/10000 m^4; None before the estimate
    heap,   \* the filter objects: 0 the one found at start, t the one thread t constructs
    kf_ref,   \* the global _kf as the requests see it: None or << object >>
    tpc,   \* where each request stands in fuse()
    tself,   \* the object each request's predict is bound to
    ttmp,   \* the value each request has computed and not yet stored
    treq   \* the PDR delta of each request

kfVars == << kf, ORIGIN, ret, raised, last, run, nops, frame >>
stepVars == << batch, pc, window, Acc_filt_binary, StanceBegins_idx,
               StancePhase, positions, delta, stride_lengths, thetas >>
oriVars == << imu, rot_gs, oi, opc, gyro_idx >>
webVars == << qr_reset_pending, qr_file, since >>
qrVars == << events, result, qpc >>
strideVars == << m_acc, sample_step_event, stride_length4 >>
raceVars == << heap, kf_ref, tpc, tself, ttmp, treq >>
vars == << kfVars, stepVars, oriVars, webVars, qrVars, strideVars, raceVars >>

\* What the calls on the filter, the step detection and the orientation
\* propagation each leave alone.
besidesKF == << stepVars, oriVars, qrVars, strideVars, raceVars >>
besidesStep == << kfVars, oriVars, webVars, qrVars, strideVars, raceVars >>
besidesOri == << kfVars, stepVars, webVars, qrVars, strideVars, raceVars >>
besidesQr == << kfVars, stepVars, oriVars, webVars, strideVars, raceVars >>
besidesStride == << kfVars, stepVars, oriVars, webVars, qrVars, raceVars >>
besidesRace == << kfVars, stepVars, oriVars, webVars, qrVars, strideVars >>

NoRun == [ok |-> FALSE, base |-> None, d |-> None, n |-> 0]

\* The run after a reset to the filter state f.
RunReset(f) == [ok |-> TRUE, base |-> get_state(f), d |-> None, n |-> 0]

\* The run after a predict of delta d3 (a 3-vector).
RunPredict(r, d3) ==
    IF r.ok /\ d3[3] = RZero /\ (r.n = 0 \/ r.d = d3)
    THEN [r EXCEPT !.d = d3, !.n = r.n + 1]
    ELSE NoRun

Call(op, a, b) == [op |-> op, a |-> a, b |-> b, pre |-> kf]

\* The fusion module as imported: no filter, origin (0.0, 0.0).
InitKF ==
    /\ kf = None
    /\ ORIGIN = << RI(0), RI(0) >>
    /\ ret = None
    /\ raised = FALSE
    /\ last = [op |-> "init", a |-> None, b |-> None, pre |-> None]
    /\ run = NoRun
    /\ nops = 0
    /\ frame = None

\* No step detection under way.
StepIdle ==
    /\ batch = None
    /\ pc = "idle"
    /\ window = 0
    /\ Acc_filt_binary = None
    /\ StanceBegins_idx = << >>
    /\ StancePhase = None
    /\ positions = None
    /\ delta = None
    /\ stride_lengths = << >>
    /\ thetas = << >>

\* No orientation propagation under way.
OriIdle ==
    /\ imu = None
    /\ rot_gs = None
    /\ oi = 0
    /\ opc = "idle"
    /\ gyro_idx = None

\* web/app.py as imported: no scan pending; no QR events file yet.
NoScan ==
    [scan |-> "none", polls |-> 0, resets |-> 0, collects |-> 0,
     confirmed |-> None]
InitWeb ==
    /\ qr_reset_pending = FALSE
    /\ qr_file = None
    /\ since = NoScan

\* No call of get_last_qr_position under way.
QrIdle ==
    /\ events = None
    /\ result = None
    /\ qpc = "idle"

\* No stride estimate under way.
StrideIdle ==
    /\ m_acc = << >>
    /\ sample_step_event = 0
    /\ stride_length4 = None

\* No overlapping requests under way.
RaceIdle ==
    /\ heap = None
    /\ kf_ref = None
    /\ tpc = None
    /\ tself = None
    /\ ttmp = None
    /\ treq = None

Init == InitKF /\ StepIdle /\ OriIdle /\ InitWeb /\ QrIdle /\ StrideIdle /\ RaceIdle

Step == nops < MaxOps /\ nops' = nops + 1 /\ UNCHANGED besidesKF

\* A call on the filter from outside the web handlers.
Direct == Step /\ UNCHANGED webVars

\* kf = KalmanFilter(): a fresh filter object.
Construct ==
    /\ Direct
    /\ kf' = KalmanFilter
    /\ last' = Call("KalmanFilter", None, None)
    /\ run' = NoRun
    /\ ret' = None /\ raised' = FALSE
    /\ frame' = ORIGIN
    /\ UNCHANGED ORIGIN

\* Measurement noise covariances passed to the constructor: exact
\* measurements, R = 0.
NoiseCovs == { EyeTimes(RZero) }

\* kf = KalmanFilter(R=R)
ConstructR ==
    \E R \in NoiseCovs :
        /\ Direct
        /\ kf' = KalmanFilterR(R)
        /\ last' = Call("KalmanFilter", None, R)
        /\ run' = NoRun
        /\ ret' = None /\ raised' = FALSE
        /\ frame' = ORIGIN
        /\ UNCHANGED ORIGIN

\* kf.reset_state(position)
ResetState ==
    \E position \in ResetPositions :
        /\ Direct /\ kf # None
        /\ kf' = reset_state(kf, position)
        /\ last' = Call("reset_state", position, None)
        /\ run' = RunReset(kf')
        /\ ret' = None /\ raised' = FALSE
        /\ frame' = ORIGIN
        /\ UNCHANGED ORIGIN

\* kf.predict(pdr_delta)
Predict ==
    \E pdr_delta \in PredictDeltas :
        /\ Direct /\ kf # None
        /\ kf' = predict(kf, pdr_delta)
        /\ last' = Call("predict", pdr_delta, None)
        /\ run' = RunPredict(run, pdr_delta)
        /\ ret' = None /\ raised' = FALSE
        /\ UNCHANGED << ORIGIN, frame >>

\* kf.update(measurement)
Update ==
    \E measurement \in Measurements :
        /\ Direct /\ kf # None
        /\ raised' = update_raises(kf)
        /\ kf' = IF update_raises(kf) THEN kf ELSE update(kf, measurement)
        /\ last' = Call("update", measurement, None)
        /\ run' = NoRun
        /\ ret' = None
        /\ UNCHANGED << ORIGIN, frame >>

\* fuse(pdr_delta, qr_anchor)
Fuse ==
    \E pdr_delta \in PdrDeltas \cup {None}, qr_anchor \in QrAnchors(ORIGIN) \cup {None} :
        /\ Direct
        /\ kf' = fuse_kf(kf, ORIGIN, pdr_delta, qr_anchor)
        /\ ret' = fuse_result(kf', ORIGIN)
        /\ last' = Call("fuse", pdr_delta, qr_anchor)
        /\ run' = IF Truthy(qr_anchor) THEN RunReset(kf')
                  ELSE IF Truthy(pdr_delta)
                  THEN RunPredict(IF kf = None THEN NoRun ELSE run,
                                  << pdr_delta[1], pdr_delta[2], RZero >>)
                  ELSE IF kf = None THEN NoRun ELSE run
        /\ raised' = FALSE
        /\ frame' = IF Truthy(qr_anchor) \/ kf = None THEN ORIGIN ELSE frame
        /\ UNCHANGED ORIGIN

\* set_origin_gps(lon, lat): set the origin and reset an existing filter.
SetOriginGps ==
    \E o \in Origins :
        /\ Direct
        /\ ORIGIN' = o
        /\ kf' = IF kf # None
                 THEN reset_state(kf, << RZero, RZero, RZero >>) ELSE kf
        /\ last' = Call("set_origin_gps", o, None)
        /\ run' = IF kf # None THEN RunReset(kf') ELSE NoRun
        /\ frame' = IF kf # None THEN o ELSE frame
        /\ ret' = None /\ raised' = FALSE

\* reset_kalman(): drop the global filter.
ResetKalman ==
    /\ Direct
    /\ kf' = None
    /\ last' = Call("reset_kalman", None, None)
    /\ run' = NoRun
    /\ ret' = None /\ raised' = FALSE
    /\ frame' = None
    /\ UNCHANGED ORIGIN

\* ------------------------------------------- services/geolocate.py, events

\* Longest event list.
MaxEvents == 3

\* Timestamps, in their order; two of them, so that lists hold ties.
Stamps == { 1, 2 }

\* A JSON value under "position": whether it is a list, and its items; an
\* item is a number (float() returns v) or a word (float() raises).
List(items) == [list |-> TRUE, items |-> items]
Num(v) == [float |-> TRUE, v |-> v]
Word == [float |-> FALSE, v |-> 0]
NotAList == [list |-> FALSE, items |-> << >>]

GoodPositions == { List(<< Num(2), Num(41) >>), List(<< Num(3), Num(42) >>) }
BadPositions == { List(<< Num(2) >>), List(<< Num(2), Num(41), Num(0) >>),
                  NotAList }
WordPosition == List(<< Word, Word >>)

\* An event is a dict (a record of the keys it holds) or something else.
QrEvents ==
    { [type |-> "qr", timestamp |-> t, position |-> p] :
        t \in Stamps, p \in GoodPositions }
Malformed ==
    { [nondict |-> "invalid"],
      [type |-> "qr"],
      [timestamp |-> 1],
      [type |-> "wifi", timestamp |-> 2, position |-> List(<< Num(2), Num(41) >>)],
      [type |-> "qr", timestamp |-> 2, position |-> WordPosition],
      [type |-> "qr", position |-> List(<< Num(2), Num(41) >>)] }
    \cup { [type |-> "qr", timestamp |-> 2, position |-> p] : p \in BadPositions }

RECURSIVE Lists(_, _)
Lists(S, n) ==
    IF n = 0 THEN { << >> }
    ELSE LET shorter == Lists(S, n - 1)
         IN shorter \cup { Append(l, e) : l \in shorter, e \in S }

EventLists == Lists(QrEvents \cup Malformed, MaxEvents)

\* isinstance(event, dict)
IsDict(event) == "nondict" \notin DOMAIN event

\* Lines 116-118: type == "qr" and the position is a list of length 2.
Usable(event) ==
    /\ IsDict(event)
    /\ "type" \in DOMAIN event /\ event.type = "qr"
    /\ "position" \in DOMAIN event
    /\ event.position.list /\ Len(event.position.items) = 2

\* Lines 112-119: the (event, idx) pairs kept, idx counted from 0.
RECURSIVE Collect(_, _)
Collect(evs, k) ==
    IF k > Len(evs) THEN << >>
    ELSE IF Usable(evs[k]) THEN << << evs[k], k - 1 >> >> \o Collect(evs, k + 1)
    ELSE Collect(evs, k + 1)

\* Order of the sort key (x[0]["timestamp"], x[1]).
KeyLess(x, y) ==
    \/ x[1].timestamp < y[1].timestamp
    \/ x[1].timestamp = y[1].timestamp /\ x[2] < y[2]

RECURSIVE Insert(_, _)
Insert(s, x) ==
    IF Len(s) = 0 THEN << x >>
    ELSE IF KeyLess(x, s[1]) THEN << x >> \o s
    ELSE << s[1] >> \o Insert(Tail(s), x)

RECURSIVE sorted(_)
sorted(s) == IF Len(s) = 0 THEN << >> ELSE Insert(sorted(Tail(s)), s[1])

Returns(v) == [raised |-> FALSE, value |-> v]
KeyError == [raised |-> TRUE, value |-> None]

\* get_last_qr_position(events): None and the empty list are both falsy.
get_last_qr_position(evs) ==
    IF Len(evs) = 0 THEN Returns(None)
    ELSE LET qr_events == Collect(evs, 1)
         IN IF Len(qr_events) = 0 THEN Returns(None)
            ELSE IF \E k \in 1..Len(qr_events) :
                        "timestamp" \notin DOMAIN qr_events[k][1]
            THEN KeyError \* KeyError in the sort key, line 126
            ELSE LET last_qr_event == sorted(qr_events)[Len(qr_events)][1]
                     position == last_qr_event.position.items
                 IN IF position[1].float /\ position[2].float
                    THEN Returns(<< position[1].v, position[2].v >>)
                    ELSE Returns(None)   \* float() raised, caught at line 135

\* An event list handed to get_last_qr_position.
InitQr ==
    /\ InitKF
    /\ StepIdle
    /\ OriIdle
    /\ InitWeb
    /\ RaceIdle
    /\ StrideIdle
    /\ events \in EventLists
    /\ result = None
    /\ qpc = "call"

GetLastQrPosition ==
    /\ qpc = "call"
    /\ result' = get_last_qr_position(events)
    /\ qpc' = "done"
    /\ UNCHANGED events
    /\ UNCHANGED besidesQr

NextQr == GetLastQrPosition

SpecQr == InitQr /\ [][NextQr]_vars

\* fingerprint.set_origin(lon0, lat0): the origin alone.
SetOrigin ==
    \E o \in Origins :
        /\ Direct
        /\ ORIGIN' = o
        /\ last' = Call("set_origin", o, None)
        /\ ret' = None /\ raised' = FALSE
        /\ UNCHANGED << kf, run, frame >>

\* geolocate.initialize_coordinate_system(lon, lat), both given: set_origin.
InitializeCoordinateSystem ==
    \E o \in Origins :
        /\ Direct
        /\ ORIGIN' = o
        /\ last' = Call("initialize_coordinate_system", o, None)
        /\ ret' = None /\ raised' = FALSE
        /\ UNCHANGED << kf, run, frame >>

\* The fusion module: fuse(), set_origin_gps() and reset_kalman() on the
\* global filter, and direct reset_state/predict calls on that filter.  fuse()
\* never calls update (the fingerprint path is commented out).
Next ==
    \/ Construct
    \/ ResetState
    \/ Predict
    \/ Fuse
    \/ SetOriginGps
    \/ ResetKalman

Spec == Init /\ [][Next]_vars

\* fuse(pdr_delta, qr_anchor, room=room)
FuseRoom ==
    \E pdr_delta \in PdrDeltas \cup {None},
       qr_anchor \in QrAnchors(ORIGIN) \cup {None},
       room \in RoomIds \cup {None} :
        /\ Direct
        /\ kf' = fuse_room(kf, ORIGIN, pdr_delta, qr_anchor, room)
        /\ ret' = fuse_result(kf', ORIGIN)
        /\ last' = Call("fuse_room", qr_anchor, room)
        /\ run' = IF Truthy(qr_anchor) THEN RunReset(kf')
                  ELSE IF Truthy(pdr_delta)
                  THEN RunPredict(IF kf = None THEN NoRun ELSE run,
                                  << pdr_delta[1], pdr_delta[2], RZero >>)
                  ELSE IF kf = None THEN NoRun ELSE run
        /\ raised' = FALSE
        /\ frame' = IF Truthy(qr_anchor) \/ kf = None THEN ORIGIN ELSE frame
        /\ UNCHANGED ORIGIN

\* fuse() called with a room, as the web routes call it.
NextRoom ==
    \/ FuseRoom
    \/ ResetKalman

SpecRoom == Init /\ [][NextRoom]_vars

\* fuse() under every way of changing the origin.
NextOrigin ==
    \/ Fuse
    \/ SetOriginGps
    \/ SetOrigin
    \/ InitializeCoordinateSystem

SpecOrigin == Init /\ [][NextOrigin]_vars

\* A standalone filter object under every operation of its class.
NextKF ==
    \/ Construct
    \/ ConstructR
    \/ ResetState
    \/ Predict
    \/ Update

SpecKF == Init /\ [][NextKF]_vars

\* ------------------------------------- services/geolocate.py, web/app.py
\* get_latest_positions() and the /position and /scan_qr handlers.

\* Room positions scan_qr may store, as offsets from the origin: 50 and
\* 100 metres east and north, and 100 metres west and 25 north.
RoomOffsets ==
    { << Rat(50, EarthRadius), Rat(100, EarthRadius) >>,
      << Rat(-100, EarthRadius), Rat(25, EarthRadius) >> }
RoomPositions(o) == { AnchorAt(o, off) : off \in RoomOffsets }

\* How the PDR part of get_latest_positions ends: load_imu raises, the batch
\* has fewer than 2 samples, the sampling rate is <= 0, pdr_delta raises, or
\* pdr_delta returns (dx, dy).
PdrFailures == { "load_raises", "too_few_samples", "bad_rate", "delta_raises" }
PdrOutcomes ==
    { [kind |-> k, delta |-> None] : k \in PdrFailures }
    \cup { [kind |-> "ok", delta |-> d] :
             d \in { << RI(1), Rat(1, 2) >>, << RI(-2), RI(3) >> } }

\* A failed batch reported as a neutral delta.
get_latest_pdr_neutral(outcome) ==
    IF outcome.kind = "ok"
    THEN normalize_position_to_3tuple(outcome.delta)
    ELSE normalize_position_to_3tuple(<< RZero, RZero >>)

\* pdr_pos of get_latest_positions: every failure is caught and leaves None.
get_latest_pdr(outcome) ==
    IF outcome.kind = "ok"
    THEN normalize_position_to_3tuple(outcome.delta)
    ELSE None

\* The event scan_qr and change_room store for a room at (lon, lat); the
\* clock is not modelled, the file holds one event at a time.
QrEventAt(coord) ==
    [type |-> "qr", timestamp |-> 1,
     position |-> List(<< Num(coord[1]), Num(coord[2]) >>)]

\* default_qr_event(room, lon, lat): room, timestamp and position, no type.
default_qr_event(lon, lat) ==
    [timestamp |-> 1, position |-> List(<< Num(lon), Num(lat) >>)]

\* qr_pos of get_latest_positions: the position get_last_qr_position reads
\* from the file, converted to local coordinates; an exception leaves None.
get_latest_qr(file, o) ==
    LET qr_geo == get_last_qr_position(file)
    IN  IF qr_geo.raised \/ qr_geo.value = None THEN None
        ELSE normalize_position_to_3tuple(
                 ll_to_local(o, qr_geo.value[1], qr_geo.value[2]))

\* get_room_position(room) for a room of room_positions.csv: (lon, lat).
get_room_position(coord) == << coord[1], coord[2] >>

\* `lon, lat, floor = value` raises ValueError unless value has 3 items.
UnpackRaises(value, n) == Len(value) # n

\* POST /scan_qr for a valid room whose position is known: unpacking the
\* room position into (lon, lat, floor) raises and the handler answers 404;
\* otherwise the pending flag is set, then the event file is overwritten;
\* the save may fail (then 500).
ScanQr ==
    \E room \in RoomPositions(ORIGIN), saved \in BOOLEAN :
        /\ Step
        /\ IF UnpackRaises(get_room_position(room), 3)
           THEN /\ since' = [since EXCEPT !.scan = "not_found", !.polls = 0,
                                !.resets = 0, !.collects = 0]
                /\ UNCHANGED << qr_reset_pending, qr_file >>
           ELSE /\ qr_reset_pending' = TRUE
                /\ qr_file' = IF saved THEN << QrEventAt(room) >> ELSE qr_file
                /\ since' = [since EXCEPT
                                !.scan = IF saved THEN "saved" ELSE "failed",
                                !.polls = 0, !.resets = 0, !.collects = 0]
        /\ last' = Call("scan_qr", room, saved)
        /\ ret' = None /\ raised' = FALSE
        /\ UNCHANGED << kf, ORIGIN, run, frame >>

\* POST /change_room for a valid room: the same unpacking raises inside the
\* try block, the handler logs a warning and answers 200.
ChangeRoom ==
    \E room \in RoomPositions(ORIGIN) :
        /\ Step
        /\ IF UnpackRaises(get_room_position(room), 3)
           THEN UNCHANGED << qr_reset_pending, qr_file, since >>
           ELSE /\ qr_reset_pending' = TRUE
                /\ qr_file' = << QrEventAt(room) >>
                /\ since' = [since EXCEPT !.scan = "saved", !.polls = 0,
                                !.resets = 0, !.collects = 0]
        /\ last' = Call("change_room", room, None)
        /\ ret' = None /\ raised' = FALSE
        /\ UNCHANGED << kf, ORIGIN, run, frame >>

\* GET /position with a valid room: get_latest_positions(), then fuse() with
\* the marker when a scan is pending and a marker was read, else without.
GetPosition ==
    \E outcome \in PdrOutcomes :
        LET pdr_pos == get_latest_pdr(outcome)
            qr_reset == get_latest_qr(qr_file, ORIGIN)
            marker == IF qr_reset_pending /\ Truthy(qr_reset)
                      THEN qr_reset ELSE None
        IN  /\ Step
            /\ kf' = fuse_kf(kf, ORIGIN, pdr_pos, marker)
            /\ ret' = fuse_result(kf', ORIGIN)
            /\ qr_reset_pending' =
                  IF marker # None THEN FALSE ELSE qr_reset_pending
            /\ since' = [since EXCEPT !.polls = @ + 1,
                            !.resets = IF marker # None THEN @ + 1 ELSE @]
            /\ last' = Call("position", outcome, marker)
            /\ run' = IF Truthy(marker) THEN RunReset(kf')
                      ELSE IF Truthy(pdr_pos)
                      THEN RunPredict(IF kf = None THEN NoRun ELSE run,
                                      << pdr_pos[1], pdr_pos[2], RZero >>)
                      ELSE IF kf = None THEN NoRun ELSE run
            /\ frame' = IF Truthy(marker) \/ kf = None THEN ORIGIN ELSE frame
            /\ raised' = FALSE
            /\ UNCHANGED << ORIGIN, qr_file >>

\* GET /data with a valid room: get_latest_positions(), then
\* fuse(pdr_pos, qr_reset), whatever the pending flag says.
VisualizeData ==
    \E outcome \in PdrOutcomes :
        LET pdr_pos == get_latest_pdr(outcome)
            qr_reset == get_latest_qr(qr_file, ORIGIN)
        IN  /\ Step
            /\ kf' = fuse_kf(kf, ORIGIN, pdr_pos, qr_reset)
            /\ ret' = fuse_result(kf', ORIGIN)
            /\ since' = [since EXCEPT
                            !.resets = IF Truthy(qr_reset) THEN @ + 1 ELSE @]
            /\ last' = Call("data", outcome, qr_reset)
            /\ run' = IF Truthy(qr_reset) THEN RunReset(kf')
                      ELSE IF Truthy(pdr_pos)
                      THEN RunPredict(IF kf = None THEN NoRun ELSE run,
                                      << pdr_pos[1], pdr_pos[2], RZero >>)
                      ELSE IF kf = None THEN NoRun ELSE run
            /\ frame' = IF Truthy(qr_reset) \/ kf = None THEN ORIGIN ELSE frame
            /\ raised' = FALSE
            /\ UNCHANGED << ORIGIN, qr_file, qr_reset_pending >>

\* write_csv_safe(df, path) calls df.to_csv: AttributeError when df is None.
write_csv_safe_raises(df) == df = None

\* POST /collect_sensor_data with readings: the raw files are written, then
\* update_localization_files(None, room, room) raises in write_csv_safe
\* before update_pdr and update_qr; the handler logs it and answers 200.
CollectSensorData ==
    \E room \in RoomPositions(ORIGIN) :
        /\ Step
        /\ qr_file' = IF write_csv_safe_raises(None) THEN qr_file
                      ELSE << default_qr_event(room[1], room[2]) >>
        /\ since' = [since EXCEPT !.collects = @ + 1]
        /\ last' = Call("collect_sensor_data", room, None)
        /\ ret' = None /\ raised' = FALSE
        /\ UNCHANGED << kf, ORIGIN, run, frame, qr_reset_pending >>

\* update_live.main(room), the command-line entry: update_qr overwrites the
\* events file with the single event of default_qr_event.
UpdateLive ==
    \E room \in RoomPositions(ORIGIN) :
        /\ Step
        /\ qr_file' = << default_qr_event(room[1], room[2]) >>
        /\ last' = Call("update_live", room, None)
        /\ ret' = None /\ raised' = FALSE
        /\ UNCHANGED << kf, ORIGIN, run, frame, qr_reset_pending, since >>

\* POST /confirm_position with a room and a position: reset_kalman().
ConfirmPosition ==
    \E position \in RoomPositions(ORIGIN) :
        /\ Step
        /\ kf' = None
        /\ run' = NoRun
        /\ frame' = None
        /\ since' = [since EXCEPT !.confirmed = position]
        /\ last' = Call("confirm_position", position, None)
        /\ ret' = None /\ raised' = FALSE
        /\ UNCHANGED << ORIGIN, qr_file, qr_reset_pending >>

\* The web application as started: no scan pending; the events file, which
\* outlives the process, is absent or holds the marker event of a room.
InitStored ==
    /\ InitKF /\ StepIdle /\ OriIdle /\ QrIdle /\ StrideIdle /\ RaceIdle
    /\ qr_reset_pending = FALSE
    /\ qr_file \in { << >> } \cup { << QrEventAt(room) >> :
                                     room \in RoomPositions(<< RI(0), RI(0) >>) }
    /\ since = NoScan

\* The web application: its handlers and the update_live command.
NextWeb ==
    \/ ScanQr
    \/ ChangeRoom
    \/ GetPosition
    \/ VisualizeData
    \/ CollectSensorData
    \/ UpdateLive
    \/ ConfirmPosition

SpecWeb == InitStored /\ [][NextWeb]_vars

\* ---------------------------------------------------- algorithms/PDR.py
\* step_detection_accelerometer.  Accelerations are integers in tenths of
\* m/s^2.  The Butterworth filter and the gravity tracker produce the
\* detrended magnitude; the batch gives that detrended sample directly.

\* Free samples of a batch.
MaxFree == 4

\* threshold_acc = 0.4 and threshold_acc_discard = 2.0, in tenths.
threshold_acc == 4
threshold_acc_discard == 20

\* Samples of the stance window written per step event.
StanceLen == 10

\* filtfilt's default padding for a 4th-order filter, 3 * max(len(a), len(b)):
\* the input must be longer.
PadLen == 15

\* Detrended values on both sides of, and on, the thresholds.
DetrendValues == { -5, -4, 0, 4, 5 }

\* How a batch begins.  Sample 0 is never detrended and stays 0.
\*   Still:  at rest, ending on the upper threshold;
\*   Stride: one walking cycle (rise, rise, neutral, neutral, fall), then a
\*           second rise;
\*   Jolt:   the same cycle with a rise beyond the discard threshold.
Still == << 0, 0, 0, 0, 4 >>
Stride == << 0, 0, 5, 5, 0, 0, -5, 5, 5 >>
Jolt == << 0, 0, 25, 25, 0, 0, -5 >>
Prefixes == { Still, Stride, Jolt }

BatchLengths == { 20, 21 }
\* Durations time[-1] - time[0], in tenths of a second.
Durations == { 10, 20 }

\* A batch of n samples lasting time_exp tenths of a second: the given
\* samples, then rest.
Batch(n, time_exp, samples) ==
    [n |-> n,
     time_exp |-> time_exp,
     detrend |-> [i \in 0..(n - 1) |->
                    IF i < Len(samples) THEN samples[i + 1] ELSE 0]]

\* A batch at rest that is no longer than the filter's padding.
ShortBatch == Batch(PadLen, 10, << >>)

\* Batches at rest with no more samples than the detection window and its
\* margin of two: 2 and 3 samples over a second, and 16 samples over 0.4 s
\* (freq_Acc = 40, window = 16).
TinyBatches == { Batch(2, 10, << >>), Batch(3, 10, << >>) }
BurstBatch == Batch(16, 4, << >>)

\* A single sample: time[-1] and time[0] are the same timestamp.
SingleSample == Batch(1, 0, << >>)

\* Batches whose timestamps do not advance: all equal, or running backwards.
StalledBatches == { Batch(20, 0, Stride), Batch(20, -10, Stride) }

Batches ==
    { Batch(n, t, prefix \o free) :
        n \in BatchLengths, t \in Durations, prefix \in Prefixes,
        free \in [1..MaxFree -> DetrendValues] }
    \cup { ShortBatch, BurstBatch, SingleSample }
    \cup TinyBatches \cup StalledBatches

\* freq_Acc = np.ceil(num_samples / time_exp)
freq_Acc(n, time_exp) == (10 * n + time_exp - 1) \div time_exp

\* window = int(0.4 * freq_Acc)
WindowOf(f) == (4 * f) \div 10

\* The filter stage raises: a duration <= 0 (division by zero, or a
\* non-positive Wn), Wn = 2.0 / (freq_Acc / 2) >= 1 in butter(), or an input
\* no longer than filtfilt's padding.
FilterRaises(n, time_exp) ==
    \/ time_exp <= 0
    \/ 4 >= freq_Acc(n, time_exp)
    \/ n <= PadLen

\* The thresholds taken as inclusive.
Classify_inclusive(d, prev) ==
    IF d >= threshold_acc /\ d < threshold_acc_discard THEN 1
    ELSE IF d <= -threshold_acc THEN (IF prev = 1 THEN 0 ELSE -1)
    ELSE 0

\* The class of one detrended sample, prev being the class before it.
Classify(d, prev) ==
    IF d > threshold_acc /\ d < threshold_acc_discard THEN 1
    ELSE IF d < -threshold_acc THEN (IF prev = 1 THEN 0 ELSE -1)
    ELSE 0

\* The classification loop, for ii in range(1, n); sample 0 stays 0.
BinaryOf(detrend, n) ==
    LET b[i \in 0..(n - 1)] ==
            IF i = 0 THEN 0 ELSE Classify(detrend[i], b[i - 1])
    IN  [i \in 0..(n - 1) |-> b[i]]

\* np.sum(b[lo:hi]) for 0 <= lo.
RECURSIVE SliceSum(_, _, _)
SliceSum(b, lo, hi) == IF lo >= hi THEN 0 ELSE b[lo] + SliceSum(b, lo + 1, hi)

\* The event test at sample ii: falling, after a neutral sample, and
\* np.sum(Acc_filt_binary[ii - window:ii - 2]) > 1.
Fires(b, w, ii) ==
    b[ii] = -1 /\ b[ii - 1] = 0 /\ SliceSum(b, ii - w, ii - 2) > 1

\* The detection loop recording each event in front of the earlier ones.
RECURSIVE DetectLoop_prepend(_, _, _, _, _)
DetectLoop_prepend(b, w, n, ii, idx) ==
    IF ii >= n THEN idx
    ELSE DetectLoop_prepend(b, w, n, ii + 1,
                            IF Fires(b, w, ii) THEN << ii >> \o idx ELSE idx)

\* The detection loop, for ii in range(window + 2, n), from ii on.
RECURSIVE DetectLoop(_, _, _, _, _)
DetectLoop(b, w, n, ii, idx) ==
    IF ii >= n THEN idx
    ELSE DetectLoop(b, w, n, ii + 1,
                    IF Fires(b, w, ii) THEN Append(idx, ii) ELSE idx)

\* The stance loop from the k-th event on: StancePhase[ii:ii + 10] =
\* np.ones(10) raises ValueError when the slice is shorter than 10.
RECURSIVE StanceLoop(_, _, _, _)
StanceLoop(idx, n, k, mask) ==
    IF k > Len(idx) THEN [raised |-> FALSE, mask |-> mask]
    ELSE IF idx[k] + StanceLen > n THEN [raised |-> TRUE, mask |-> mask]
    ELSE StanceLoop(idx, n, k + 1,
            [i \in 0..(n - 1) |->
                IF idx[k] <= i /\ i < idx[k] + StanceLen THEN 1 ELSE mask[i]])

\* Stride lengths in decimetres, and headings in quarter turns: the angles
\* whose cosine and sine are integers.
Strides == { 7 }
Headings == { 0, 1 }
Cos(q) == CASE q % 4 = 0 -> 1 [] q % 4 = 2 -> -1 [] OTHER -> 0
Sin(q) == CASE q % 4 = 1 -> 1 [] q % 4 = 3 -> -1 [] OTHER -> 0

\* Per-step displacements (stride * cos(theta), stride * sin(theta)), in
\* decimetres.
StepVector(stride, theta) == << stride * Cos(theta), stride * Sin(theta) >>
StepVectors == { StepVector(l, q) : l \in Strides, q \in Headings }

\* Step 5 with every position counted from the initial one.
RECURSIVE PositionsOf_from_start(_, _, _)
PositionsOf_from_start(steps, k, acc) ==
    IF k > Len(steps) THEN acc
    ELSE PositionsOf_from_start(steps, k + 1,
            Append(acc, << acc[1][1] + steps[k][1],
                           acc[1][2] + steps[k][2] >>))

\* Step 5 of weiberg_stride_length_heading_position: the running sum of the
\* step displacements, with the initial position (0, 0) put first.
RECURSIVE PositionsOf(_, _, _)
PositionsOf(steps, k, acc) ==
    IF k > Len(steps) THEN acc
    ELSE PositionsOf(steps, k + 1,
            Append(acc, << acc[Len(acc)][1] + steps[k][1],
                           acc[Len(acc)][2] + steps[k][2] >>))

\* A batch handed to step_detection_accelerometer.
InitStep ==
    /\ InitKF
    /\ OriIdle
    /\ InitWeb
    /\ RaceIdle
    /\ StrideIdle
    /\ QrIdle
    /\ batch \in Batches
    /\ pc = "start"
    /\ window = 0
    /\ Acc_filt_binary = None
    /\ StanceBegins_idx = << >>
    /\ StancePhase = None
    /\ positions = None
    /\ delta = None
    /\ stride_lengths = << >>
    /\ thetas = << >>

\* Lines 15-24: the sample rate and the low-pass filter.
FilterBatch ==
    /\ pc = "start"
    /\ pc' = IF FilterRaises(batch.n, batch.time_exp) THEN "raised" ELSE "classify"
    /\ UNCHANGED << delta, batch, window, Acc_filt_binary, StanceBegins_idx,
                    StancePhase, positions >>
    /\ UNCHANGED << stride_lengths, thetas >>
    /\ UNCHANGED besidesStep

\* Lines 26-46: detrend and classify every sample.
ClassifySamples ==
    /\ pc = "classify"
    /\ Acc_filt_binary' = BinaryOf(batch.detrend, batch.n)
    /\ pc' = "detect"
    /\ UNCHANGED << delta, batch, window, StanceBegins_idx, StancePhase, positions >>
    /\ UNCHANGED << stride_lengths, thetas >>
    /\ UNCHANGED besidesStep

\* Lines 48-67: the detection loop.
DetectSteps ==
    /\ pc = "detect"
    /\ window' = WindowOf(freq_Acc(batch.n, batch.time_exp))
    /\ StanceBegins_idx' =
          DetectLoop(Acc_filt_binary, window', batch.n, window' + 2, << >>)
    /\ pc' = "stance"
    /\ UNCHANGED << delta, batch, Acc_filt_binary, StancePhase, positions >>
    /\ UNCHANGED << stride_lengths, thetas >>
    /\ UNCHANGED besidesStep

\* Lines 70-75 and the return: the stance mask.
MarkStance ==
    /\ pc = "stance"
    /\ LET r == StanceLoop(StanceBegins_idx, batch.n, 1,
                           [i \in 0..(batch.n - 1) |-> 0])
       IN  /\ StancePhase' = r.mask
           /\ pc' = IF r.raised THEN "raised" ELSE "done"
    /\ UNCHANGED << delta, batch, window, Acc_filt_binary, StanceBegins_idx, positions >>
    /\ UNCHANGED << stride_lengths, thetas >>
    /\ UNCHANGED besidesStep

\* Lines 163-173: the trajectory over the detected steps.
IntegratePositions ==
    /\ pc = "done"
    /\ \E l \in [1..Len(StanceBegins_idx) -> Strides],
          q \in [1..Len(StanceBegins_idx) -> Headings] :
          /\ stride_lengths' = l
          /\ thetas' = q
          /\ positions' =
                PositionsOf([k \in 1..Len(StanceBegins_idx) |->
                                StepVector(l[k], q[k])],
                            1, << << 0, 0 >> >>)
    /\ pc' = "integrated"
    /\ UNCHANGED << delta, batch, window, Acc_filt_binary, StanceBegins_idx, StancePhase >>
    /\ UNCHANGED besidesStep

\* pdr_delta on a trajectory: the displacement of the most recent step,
\* pos_last - pos_second_to_last, and (0, 0) when the trajectory holds fewer
\* than two steps after the initial position.
pdr_delta(pos) ==
    IF Len(pos) - 1 < 2 THEN << 0, 0 >>
    ELSE << pos[Len(pos)][1] - pos[Len(pos) - 1][1],
            pos[Len(pos)][2] - pos[Len(pos) - 1][2] >>

\* pdr_delta returns, the step detection and the integration having
\* returned; an exception raised by either is not caught.
ReturnDelta ==
    /\ pc = "integrated"
    /\ delta' = pdr_delta(positions)
    /\ pc' = "delta"
    /\ UNCHANGED << batch, window, Acc_filt_binary, StanceBegins_idx,
                    StancePhase, positions >>
    /\ UNCHANGED << stride_lengths, thetas >>
    /\ UNCHANGED besidesStep

NextStep ==
    \/ FilterBatch
    \/ ClassifySamples
    \/ DetectSteps
    \/ MarkStance
    \/ IntegratePositions
    \/ ReturnDelta

SpecStep == InitStep /\ [][NextStep]_vars

\* weiberg_stride_length_heading_position, Step 4: the orientation is
\* propagated sample by sample from the gyroscope.  Rotations are about the
\* vertical axis, so an orientation is << yaw >>, in units of one gyroscope
\* rate step per sample, and composing with expm(skew / freq_gyr) adds the
\* sample's rate.

\* Longest accelerometer or gyroscope batch.
MaxSamples == 4

GyroRates == { -1, 0, 1 }

\* Durations time[-1] - time[0] of the batch, in tenths of a second.
ImuDurations == { 10, 20 }

ImuBatches ==
    UNION { { [n_acc |-> a, n_gyr |-> g, time_exp |-> t, gyr |-> r] :
                r \in [0..(g - 1) -> GyroRates], t \in ImuDurations } :
            a \in 1..MaxSamples, g \in 1..MaxSamples }

\* rot_gs = np.zeros((3, 3, num_samples_acc)); rot_gs[:, :, 0] is the initial
\* orientation, yaw_ini = 0.
InitOri ==
    /\ InitKF
    /\ StepIdle
    /\ InitWeb
    /\ RaceIdle
    /\ StrideIdle
    /\ QrIdle
    /\ imu \in ImuBatches
    /\ rot_gs = [i \in 0..(imu.n_acc - 1) |-> IF i = 0 THEN << 0 >> ELSE None]
    /\ oi = 1
    /\ opc = "loop"
    /\ gyro_idx = None

\* for i in range(1, num_samples_gyr)
LoopBound(b) == b.n_gyr

\* One iteration: rot_gs[:, :, i] = rot_gs[:, :, i - 1] . expm(skew / freq_gyr);
\* writing past the num_samples_acc entries of rot_gs raises IndexError.
PropagateSample ==
    /\ opc = "loop"
    /\ oi < LoopBound(imu)
    /\ IF oi >= imu.n_acc
       THEN /\ opc' = "raised"
            /\ UNCHANGED << rot_gs, oi >>
       ELSE /\ rot_gs' = [rot_gs EXCEPT ![oi] = << rot_gs[oi - 1][1] + imu.gyr[oi] >>]
            /\ oi' = oi + 1
            /\ opc' = "loop"
    /\ UNCHANGED << imu, gyro_idx >>
    /\ UNCHANGED besidesOri

\* The loop ends.
FinishPropagation ==
    /\ opc = "loop"
    /\ oi >= LoopBound(imu)
    /\ opc' = "done"
    /\ UNCHANGED << imu, rot_gs, oi, gyro_idx >>
    /\ UNCHANGED besidesOri

\* np.floor(step_event * freq_gyr / freq_acc).astype(int), the rates being
\* np.ceil(num_samples / time_exp).
step_event_gyro(b, idx) ==
    (idx * freq_Acc(b.n_gyr, b.time_exp)) \div freq_Acc(b.n_acc, b.time_exp)

\* thetas[k] = np.arctan2(rot_gs[1, 0, g], rot_gs[0, 0, g]) for a step event
\* at accelerometer sample idx: IndexError when g is past the
\* num_samples_acc entries of rot_gs.
ReadHeading ==
    /\ opc = "done"
    /\ \E idx \in 0..(imu.n_acc - 1) :
          /\ gyro_idx' = << step_event_gyro(imu, idx) >>
          /\ opc' = IF step_event_gyro(imu, idx) >= imu.n_acc
                    THEN "read_raised" ELSE "read"
    /\ UNCHANGED << imu, rot_gs, oi >>
    /\ UNCHANGED besidesOri

NextOri ==
    \/ PropagateSample
    \/ FinishPropagation
    \/ ReadHeading

SpecOri == InitOri /\ [][NextOri]_vars

\* ============================================================ claims

\* The filter the last call started from (fuse() constructs a missing one).
PreFilter == fuse_filter(last.pre)

FuseCalled == last.op = "fuse"

\* ----------------------------------------------- overlapping fuse() calls
\* Two requests of the threaded server inside fuse(pdr_delta) at once.  No
\* lock guards _kf: the requests interleave between any two loads and stores
\* of the global and of the filter's attributes.

Threads == { 1, 2 }

\* PDR deltas of the requests, as fuse() hands them to predict.
RaceDeltas ==
    { << RI(1), Rat(1, 2), RZero >>, << RI(-2), RI(3), RZero >> }

\* The filter the requests find: none yet, or one reset to a position.
FoundFilters == { None, reset_state(KalmanFilter, << RI(5), RI(3), RI(2) >>) }

InitRace ==
    /\ InitKF /\ StepIdle /\ OriIdle /\ InitWeb /\ QrIdle /\ StrideIdle
    /\ \E found \in FoundFilters :
          /\ heap = [i \in 0..2 |-> IF i = 0 THEN found ELSE None]
          /\ kf_ref = IF found = None THEN None ELSE << 0 >>
    /\ tpc = [t \in Threads |-> "check"]
    /\ tself = [t \in Threads |-> None]
    /\ ttmp = [t \in Threads |-> None]
    /\ treq \in [Threads -> RaceDeltas]

\* if _kf is None:
CheckNone(t) ==
    /\ tpc[t] = "check"
    /\ tpc' = [tpc EXCEPT ![t] = IF kf_ref = None THEN "construct" ELSE "load"]
    /\ UNCHANGED << heap, kf_ref, tself, ttmp, treq >>
    /\ UNCHANGED besidesRace

\* _kf = KalmanFilter()
ConstructFilter(t) ==
    /\ tpc[t] = "construct"
    /\ heap' = [heap EXCEPT ![t] = KalmanFilter]
    /\ kf_ref' = << t >>
    /\ tpc' = [tpc EXCEPT ![t] = "load"]
    /\ UNCHANGED << tself, ttmp, treq >>
    /\ UNCHANGED besidesRace

\* _kf.predict(...): the global is loaded and the method bound to its object.
LoadFilter(t) ==
    /\ tpc[t] = "load"
    /\ tself' = [tself EXCEPT ![t] = kf_ref]
    /\ tpc' = [tpc EXCEPT ![t] = "read_x"]
    /\ UNCHANGED << heap, kf_ref, ttmp, treq >>
    /\ UNCHANGED besidesRace

\* self.x + delta
ReadX(t) ==
    /\ tpc[t] = "read_x"
    /\ ttmp' = [ttmp EXCEPT ![t] = VAdd(heap[tself[t][1]].x, treq[t])]
    /\ tpc' = [tpc EXCEPT ![t] = "write_x"]
    /\ UNCHANGED << heap, kf_ref, tself, treq >>
    /\ UNCHANGED besidesRace

\* self.x = ...
WriteX(t) ==
    /\ tpc[t] = "write_x"
    /\ heap' = [heap EXCEPT ![tself[t][1]].x = ttmp[t]]
    /\ tpc' = [tpc EXCEPT ![t] = "read_P"]
    /\ UNCHANGED << kf_ref, tself, ttmp, treq >>
    /\ UNCHANGED besidesRace

\* self.P + self.Q
ReadP(t) ==
    /\ tpc[t] = "read_P"
    /\ ttmp' = [ttmp EXCEPT ![t] =
                   MAdd(heap[tself[t][1]].P, heap[tself[t][1]].Q)]
    /\ tpc' = [tpc EXCEPT ![t] = "write_P"]
    /\ UNCHANGED << heap, kf_ref, tself, treq >>
    /\ UNCHANGED besidesRace

\* self.P = ...
WriteP(t) ==
    /\ tpc[t] = "write_P"
    /\ heap' = [heap EXCEPT ![tself[t][1]].P = ttmp[t]]
    /\ tpc' = [tpc EXCEPT ![t] = "done"]
    /\ UNCHANGED << kf_ref, tself, ttmp, treq >>
    /\ UNCHANGED besidesRace

NextRace ==
    \E t \in Threads :
        \/ CheckNone(t)
        \/ ConstructFilter(t)
        \/ LoadFilter(t)
        \/ ReadX(t)
        \/ WriteX(t)
        \/ ReadP(t)
        \/ WriteP(t)

SpecRace == InitRace /\ [][NextRace]_vars

\* ------------------------------------------------------- stride estimate

\* Longest acceleration window of the stride estimate.
MaxWindow == 4

\* Filtered acceleration magnitudes, in m/s^2.
AccValues == { 9, 10, 26 }

\* (2 * K)^4 with K = 0.2, in 1/10000: stride_length = bounce * K * 2 and
\* bounce = (acc_max - acc_min)**(1/4), so that
\* stride_length^4 = (acc_max - acc_min) * (2 * K)^4.
StrideScale == 256

RECURSIVE np_max(_)
np_max(s) ==
    IF Len(s) = 1 THEN s[1]
    ELSE LET r == np_max(Tail(s)) IN IF s[1] > r THEN s[1] ELSE r

RECURSIVE np_min(_)
np_min(s) ==
    IF Len(s) = 1 THEN s[1]
    ELSE LET r == np_min(Tail(s)) IN IF s[1] < r THEN s[1] ELSE r

\* Lines 123-127, to the fourth power: the stride of the step event at
\* sample e over the window m_acc[:e].
stride_length_4(m, e) ==
    LET seen == SubSeq(m, 1, e)
    IN (np_max(seen) - np_min(seen)) * StrideScale

\* A filtered magnitude and a step event in it; a step event is never sample 0.
InitStride ==
    /\ InitKF /\ StepIdle /\ OriIdle /\ QrIdle /\ RaceIdle
    /\ qr_reset_pending = FALSE /\ qr_file = None /\ since = NoScan
    /\ m_acc \in UNION { [1..n -> AccValues] : n \in 1..MaxWindow }
    /\ sample_step_event \in 1..Len(m_acc)
    /\ stride_length4 = None

EstimateStride ==
    /\ Len(m_acc) > 0
    /\ stride_length4 = None
    /\ stride_length4' = << stride_length_4(m_acc, sample_step_event) >>
    /\ UNCHANGED << m_acc, sample_step_event >>
    /\ UNCHANGED besidesStride

NextStride == EstimateStride

SpecStride == InitStride /\ [][NextStride]_vars

\* ---------------------------------------------------------------- C1
\* C1: a call fuse(pdr_delta = d, qr_anchor = a) carrying both a marker
\* anchor and a PDR delta performs only the hard reset: afterwards the state
\* is the anchor's local (x, y) and floor (DEFAULT_FLOOR when the anchor has
\* none), the covariance is I, and d has not been added.
C1_MarkerPriority ==
    (FuseCalled /\ last.a # None /\ last.b # None) =>
        LET xy == ll_to_local(ORIGIN, last.b[1], last.b[2])
            fl == IF Len(last.b) >= 3 THEN last.b[3] ELSE RI(DEFAULT_FLOOR)
        IN  /\ get_state(kf) = << xy[1], xy[2], fl >>
            /\ kf.P = Eye

\* A fuse() with both arguments on a filter that had moved and predicted.
C1_Witness ==
    /\ FuseCalled /\ last.a # None /\ last.b # None
    /\ last.pre # None
    /\ last.pre.P # Eye
    /\ last.a[1] # RZero
    /\ kf.P = Eye

\* ---------------------------------------------------------------- C2
\* C2: whatever the filter state before (after any predict, update and
\* reset calls), reset_state((x0, y0, f0)) followed by get_state() gives
\* exactly (x0, y0, f0), and the covariance is exactly the identity.
C2_ResetExact ==
    last.op = "reset_state" => (get_state(kf) = last.a /\ kf.P = Eye)

\* A reset_state of a filter whose state and covariance an update had changed.
C2_Witness ==
    /\ last.op = "reset_state"
    /\ last.pre.P # Eye
    /\ RLt(last.pre.P[1][1], ROne)
    /\ last.pre.x # last.a
    /\ get_state(kf) = last.a

\* ---------------------------------------------------------------- C3
\* n times the delta d = (dx, dy, 0), added to the position p.
Advance(p, d, n) ==
    << RAdd(p[1], RMul(RI(n), d[1])), RAdd(p[2], RMul(RI(n), d[2])), p[3] >>

\* C3: after a reset to (x0, y0, f0), N >= 0 consecutive predicts of the
\* same delta (dx, dy, 0) with nothing else in between leave the state at
\* (x0 + N dx, y0 + N dy, f0).
C3_PredictLinear ==
    run.ok =>
        get_state(kf) = (IF run.n = 0 THEN run.base
                         ELSE Advance(run.base, run.d, run.n))

\* Reset to (50, 20, 3), then two predicts of (1, 0.5): the state is (52, 21, 3).
C3_Witness ==
    /\ run.ok /\ run.n = 2
    /\ run.base = << RI(50), RI(20), RI(3) >>
    /\ run.d = << RI(1), Rat(1, 2), RZero >>
    /\ get_state(kf) = << RI(52), RI(21), RI(3) >>

\* ---------------------------------------------------------------- C4
\* fuse() took its PDR branch: a delta and no marker.
FusePredicted == FuseCalled /\ last.b = None /\ last.a # None

\* C4 as stated: predict never changes the floor, whatever delta it is
\* given and whatever the prior state.
C4_PredictKeepsFloor ==
    (last.op = "predict" \/ FusePredicted) => kf.x[3] = PreFilter.x[3]

\* C4 amended: KalmanFilter.predict adds the third component of its delta to
\* the floor, so it keeps the floor exactly when that component is 0; the
\* predict fuse() makes keeps the floor whatever pdr_delta holds, and a
\* fuse() with neither argument changes nothing.
C4_FloorDelta ==
    /\ last.op = "predict" => kf.x[3] = RAdd(last.pre.x[3], last.a[3])
    /\ FusePredicted => kf.x[3] = PreFilter.x[3]
    /\ (FuseCalled /\ last.a = None /\ last.b = None) => kf = PreFilter

\* fuse() given the delta (1, 0.5, 2) on floor 3: the floor stays 3.
C4_Witness ==
    /\ FusePredicted
    /\ Len(last.a) = 3 /\ last.a[3] = RI(DEFAULT_FLOOR)
    /\ last.pre # None
    /\ last.pre.x[3] = RI(3)
    /\ kf.x[3] = RI(3)
    /\ kf.x[1] # last.pre.x[1]

\* ---------------------------------------------------------------- C5
IsSymmetric(A) == \A i \in Idx, j \in Idx : A[i][j] = A[j][i]

\* A symmetric matrix is positive semi-definite iff every principal minor
\* is non-negative.
AllPrincipalMinorsNonNeg(A) ==
    /\ \A i \in Idx : RLe(RZero, A[i][i])
    /\ \A i \in Idx : RLe(RZero, Cof(A, i, i))
    /\ RLe(RZero, Det3(A))

\* C5: after every operation in any sequence of construction, reset_state,
\* predict and update, the covariance P is symmetric positive semi-definite.
C5_CovariancePSD ==
    kf # None => (IsSymmetric(kf.P) /\ AllPrincipalMinorsNonNeg(kf.P))

\* An update made after a predict: P is neither I nor what it was.
C5_Witness ==
    /\ last.op = "update" /\ ~raised
    /\ last.pre.P # Eye
    /\ kf.P # last.pre.P
    /\ RLt(RZero, kf.P[1][1])

Detected == pc \in { "stance", "done", "raised", "integrated" } /\ Acc_filt_binary # None

\* step_detection_accelerometer has returned its three results.
Returned == pc \in { "done", "integrated" }

\* i is one of the recorded step events.
IsEvent(i) == \E k \in 1..Len(StanceBegins_idx) : StanceBegins_idx[k] = i

\* C7: for every batch of length n, the step-event indices returned by step
\* detection are strictly increasing and every index i satisfies 0 <= i < n.
C7_StepIndicesIncreasing ==
    Returned =>
        /\ \A k \in 1..Len(StanceBegins_idx) :
              0 <= StanceBegins_idx[k] /\ StanceBegins_idx[k] < batch.n
        /\ \A k \in 1..Len(StanceBegins_idx) : \A l \in 1..Len(StanceBegins_idx) :
              k < l => StanceBegins_idx[k] < StanceBegins_idx[l]

\* A batch for which two step events are returned.
C7_Witness == Returned /\ Len(StanceBegins_idx) >= 2

\* C8, as stated: a step event fires at sample i exactly when sample i is
\* falling, sample i-1 is neutral, and the classification values of all the
\* floor(0.4*f) samples immediately preceding i sum to more than 1.  Stated
\* for the samples that have a whole window and a margin of two before them,
\* the ones the detection loop examines.
C8_WholeWindowSum ==
    Detected =>
        \A i \in (window + 2)..(batch.n - 1) :
            IsEvent(i) <=>
                /\ Acc_filt_binary[i] = -1
                /\ Acc_filt_binary[i - 1] = 0
                /\ SliceSum(Acc_filt_binary, i - window, i) > 1

\* C9, as stated: for every fired step event at index i the stance mask is
\* set on exactly the samples [i, min(i+10, n)) and step detection completes
\* without error, also when an event lies in the last 9 samples.
C9_StanceClipped ==
    (pc \in { "done", "raised", "integrated" } /\ StanceBegins_idx # << >>) =>
        /\ pc # "raised"
        /\ \A i \in 0..(batch.n - 1) :
              StancePhase[i] = 1 <=>
                 \E k \in 1..Len(StanceBegins_idx) :
                    /\ StanceBegins_idx[k] <= i
                    /\ i < StanceBegins_idx[k] + StanceLen
                    /\ i < batch.n

\* Every detrended sample stays between the -0.4 and +0.4 thresholds.
ZeroMotion ==
    \A i \in 0..(batch.n - 1) :
        -threshold_acc <= batch.detrend[i] /\ batch.detrend[i] <= threshold_acc

TooSmall ==
    \/ batch.n = 1
    \/ /\ batch.time_exp > 0
       /\ batch.n <= WindowOf(freq_Acc(batch.n, batch.time_exp)) + 2

\* C11, as stated: when a batch has too few samples for the detection window
\* (n <= floor(0.4*f) + 2, down to a single sample), step detection returns
\* the empty result (no event indices) and does not raise.
C11_SmallBatchEmpty ==
    TooSmall =>
        /\ pc # "raised"
        /\ pc \in { "stance", "done", "integrated" } => StanceBegins_idx = << >>

\* C12, as stated: when the batch duration time[-1] - time[0] is zero or
\* negative, step detection returns the neutral result (zero steps) instead
\* of raising.
C12_NoDurationNeutral ==
    batch.time_exp <= 0 =>
        /\ pc # "raised"
        /\ pc \in { "stance", "done", "integrated" } => StanceBegins_idx = << >>

\* C13, as stated: when the accelerometer and gyroscope batches differ in
\* length, whichever is the longer, orientation propagation runs over exactly
\* the first min(n_acc, n_gyr) samples and completes without error.
C13_PropagationTruncated ==
    opc \in { "done", "raised" } =>
        /\ opc = "done"
        /\ \A i \in 0..(imu.n_acc - 1) :
              rot_gs[i] # None <=> (i < imu.n_acc /\ i < imu.n_gyr)

\* The detection loop has run on the batch and found fewer than two events.
FewerThanTwoSteps ==
    /\ Acc_filt_binary # None
    /\ pc \in { "stance", "done", "raised", "integrated", "delta" }
    /\ Len(StanceBegins_idx) < 2

FailedPdrPoll ==
    /\ last.op = "position"
    /\ last.a.kind \in PdrFailures
    /\ last.b = None

\* C15: when the PDR computation for a batch fails (loading raises, fewer
\* than 2 samples, sampling rate <= 0, or pdr_delta raises),
\* get_latest_positions reports no PDR delta without raising, and the fuse()
\* call that follows, with no delta and no marker, leaves the filter's state
\* and covariance exactly as they were.
C15_FailureIsolated ==
    FailedPdrPoll =>
        /\ ~raised
        /\ get_latest_pdr(last.a) = None
        /\ kf = fuse_filter(last.pre)

\* A failed batch polled while the filter holds a position away from zero.
C15_Witness ==
    /\ FailedPdrPoll
    /\ last.pre # None
    /\ kf.x # << RZero, RZero, RZero >>
    /\ kf.P # Eye

\* C18, as stated: a pending marker scan is applied as a hard reset in
\* exactly one poll: the first poll after the scan resets the filter and
\* clears the pending flag, and every later poll, until a new scan arrives,
\* passes no marker to fuse().
C18_OneTimeApplication ==
    since.scan # "none" =>
        /\ since.polls = 0 => qr_reset_pending
        /\ since.polls >= 1 => (since.resets = 1 /\ ~qr_reset_pending)
        /\ (since.polls = 1 /\ last.op = "position") =>
              (last.b # None /\ kf.P = Eye)
        /\ (since.polls >= 2 /\ last.op = "position") => last.b = None

\* ------------------------------------------------------------ update claims

\* The last call was an update made while S = H P H^T + R was singular.
SingularUpdate ==
    /\ last.op = "update"
    /\ last.pre # None
    /\ Singular(InnovationCov(last.pre))

\* C16: if the innovation covariance S is singular when update is called,
\* update raises, and the state x and covariance P are left exactly as they
\* were before the call.
C16_SingularUpdateRaises ==
    SingularUpdate => (raised /\ kf = last.pre)

\* An update on a filter whose covariance and measurement noise are both 0,
\* holding the measurement taken before.
C16_Witness ==
    /\ SingularUpdate
    /\ raised
    /\ kf.x # << RZero, RZero, RZero >>

\* ------------------------------------------------------------ origin claims

\* C17, as stated: every change of the origin made while a filter exists is
\* followed by a filter reset before any further predict, whichever entry
\* point changes it: the state fuse() advances or reports was set under the
\* origin in force.
C17_NoStaleFrame ==
    (last.op = "fuse" /\ last.pre # None) => frame = ORIGIN

\* ----------------------------------------------------------- event claims

\* The well-formed QR events of a list, by position in it.
WellFormed(evs) == { i \in 1..Len(evs) : Usable(evs[i]) }

\* Event i has the greatest timestamp among those of W, the later index
\* winning a tie.
Latest(evs, i, W) ==
    /\ "timestamp" \in DOMAIN evs[i]
    /\ \A j \in W :
        /\ "timestamp" \in DOMAIN evs[j]
        /\ \/ evs[j].timestamp < evs[i].timestamp
           \/ evs[j].timestamp = evs[i].timestamp /\ j <= i

\* C19, as stated: get_last_qr_position returns the position of the
\* well-formed QR event with the greatest timestamp, the later index winning
\* a tie, and None when the list holds no well-formed QR event.
C19_LatestWellFormed ==
    qpc = "done" =>
        LET W == WellFormed(events)
        IN IF W = {} THEN result = Returns(None)
           ELSE /\ ~result.raised
                /\ \E i \in W :
                    /\ Latest(events, i, W)
                    /\ LET p == events[i].position.items
                       IN /\ p[1].float /\ p[2].float
                          /\ result.value = << p[1].v, p[2].v >>

\* C20, as stated: get_last_qr_position returns without raising for every
\* list of events.
C20_NeverRaises ==
    qpc = "done" => ~result.raised

\* -------------------------------------------------------- trajectory claims

FlatWindow ==
    \A i \in 1..sample_step_event : m_acc[i] = m_acc[1]

\* C22, as stated: every stride length lies in a plausible human-stride range,
\* non-negative and at most 2 m here, and a flat acceleration window
\* (max == min) yields the default stride of about 0.7 m (0.6 m to 0.8 m
\* here) rather than 0. Fourth powers in 1/10000 m^4.
C22_StrideInRange ==
    stride_length4 # None =>
        /\ 0 <= stride_length4[1] /\ stride_length4[1] <= 160000
        /\ FlatWindow => 1296 <= stride_length4[1] /\ stride_length4[1] <= 4096

\* ------------------------------------------------- marker and handler claims

\* C23, as stated: a POST /scan_qr for a valid room whose position is known
\* returns success, stores a QR event carrying that room's (lon, lat) and
\* sets the pending-reset flag, and the next /position poll applies the
\* marker.
C23_ScanArmsReset ==
    /\ last.op = "scan_qr" =>
          /\ since.scan = "saved"
          /\ qr_reset_pending
          /\ qr_file = << QrEventAt(last.a) >>
    /\ (last.op = "position" /\ since.scan # "none" /\ since.polls = 1) =>
          last.b = get_latest_qr(qr_file, ORIGIN) /\ last.b # None

\* The last call reported a position with no marker and no PDR delta, the
\* filter having been discarded since a position was confirmed.
ReportAfterConfirm ==
    /\ last.op \in { "position", "data" }
    /\ last.pre = None
    /\ since.confirmed # None
    /\ last.b = None
    /\ get_latest_pdr(last.a) = None

\* C24, as stated: after a successful POST /confirm_position with position p
\* the filter has been reset to p: the next position reported by fuse() with
\* no marker and no PDR delta is p.
C24_ConfirmedReported ==
    ReportAfterConfirm =>
        ret[1] = since.confirmed[1] /\ ret[2] = since.confirmed[2]

\* The last call read the stored marker and handed it to fuse().
MarkerApplied ==
    /\ last.op \in { "position", "data" }
    /\ last.b # None

\* C25, as stated: when the stored marker at geodetic (lon, lat) is applied,
\* the filter's (x, y) after the reset equals ll_to_local(lon, lat): the
\* conversion is applied exactly once between the stored event and
\* reset_state.
C25_ConvertedOnce ==
    MarkerApplied =>
        LET geo == get_last_qr_position(qr_file).value
            xy == ll_to_local(ORIGIN, geo[1], geo[2])
        IN  kf.x[1] = xy[1] /\ kf.x[2] = xy[2]

C29_AtMostOneReset ==
    since.resets <= 1

\* -------------------------------------------------------- heading claims

\* C26, as stated: for every step event and all batch lengths and durations,
\* the gyroscope-domain index floor(idx * f_gyro / f_acc) used to read the
\* heading lies within [0, number of propagated orientation samples): the
\* heading is never read out of range nor from an orientation that was never
\* propagated.
C26_HeadingIndexInRange ==
    gyro_idx # None =>
        /\ opc = "read"
        /\ 0 <= gyro_idx[1] /\ gyro_idx[1] < imu.n_acc
        /\ rot_gs[gyro_idx[1]] # None

\* ---------------------------------------------------- concurrency claims

\* Both requests have left fuse().
BothDone == tpc # None /\ \A t \in Threads : tpc[t] = "done"

\* C27, as stated: when two requests that call fuse() overlap, their filter
\* mutations do not interleave: a single filter instance is created and
\* neither update is lost, two predicts d1 and d2 from state s ending at
\* s + d1 + d2.
C27_SingleWriter ==
    BothDone =>
        LET created == { i \in Threads : heap[i] # None }
            s == IF heap[0] = None THEN KalmanFilter.x
                 ELSE << RI(5), RI(3), RI(2) >>
        IN  /\ Cardinality(created) = IF heap[0] = None THEN 1 ELSE 0
            /\ heap[kf_ref[1]].x = VAdd(VAdd(s, treq[1]), treq[2])

\* ------------------------------------------------------------ floor claims

\* C30, as stated: when fuse() hard-resets from a marker anchor that carries
\* no floor (a 2-element position) for room 'F-NN', the filter's floor after
\* the reset is F, the floor parsed from the room identifier.
C30_FloorFromRoom ==
    (last.op = "fuse_room" /\ last.a # None /\ Len(last.a) = 2
        /\ last.b # None)
        => kf.x[3] = RI(get_floor(last.b))

====
